---- MODULE Spec2Model ----
(***************************************************************************)
(* Model of megatron_patch/model/llama2/gpt_model.py: the GPTModel wrapper *)
(* (forward, set_input_tensor, state_dict_for_save_checkpoint,             *)
(* load_state_dict) and post_language_model_processing.                    *)
(*                                                                         *)
(* Two wrappers built with the same flags are modelled: "A", whose         *)
(* checkpoint is saved, and "B", which loads mappings, receives input      *)
(* tensors and runs forward.  Tensors are abstracted to their shape and    *)
(* dtype, parameters to one integer per state-dict key.                    *)
(***************************************************************************)
EXTENDS Integers, Sequences, FiniteSets, TLC

VARIABLES
    pre_process,                          \* self.pre_process
    post_process,                         \* self.post_process
    parallel_output,                      \* self.parallel_output
    fp16_lm_cross_entropy,                \* self.fp16_lm_cross_entropy
    untie_embeddings_and_output_weights,  \* self.untie_embeddings_and_output_weights
    language_model,     \* [Models -> backbone parameters, key -> value]
    word_embeddings,    \* [Models -> head word-embedding parameters]
    input_tensor,       \* the tensor B's backbone was last handed
    state_dict_,        \* the mapping A's last save returned (EmptyDict: none yet)
    save_prefix,        \* the prefix argument of that save
    op,                 \* the call in progress / just finished ("idle": none)
    calls,              \* the calls that call made, in order, with their outcome
    raised,             \* the exception the call raised to its caller ("None")
    returned,           \* the tensor forward returned (NoneT: nothing)
    lm_output,          \* forward: the backbone's output
    labels,             \* forward: the labels argument
    output,             \* forward: the projected logits (NoneT: no projection)
    loaded,             \* load_state_dict: the state_dict argument
    reads               \* load_state_dict: the keys it subscripted state_dict with

flags == <<pre_process, post_process, parallel_output, fp16_lm_cross_entropy,
           untie_embeddings_and_output_weights>>
params == <<language_model, word_embeddings>>
ckpt == <<state_dict_, save_prefix>>
frame == <<op, calls, raised, returned, lm_output, labels, output, loaded, reads>>
vars == <<flags, params, input_tensor, ckpt, frame>>

-----------------------------------------------------------------------------
(* Bounds *)
MaxVal == 1        \* parameter values are 0..MaxVal
MaxDim == 2        \* s, b, h range over 1..MaxDim
VocabRows == 3     \* rows of the logit weight on this tensor-parallel rank
TPSize == 2        \* tensor-model-parallel world size

Val == 0..MaxVal
Dims == 1..MaxDim
Models == {"A", "B"}
Dtypes == {"half", "float"}
Prefixes == {"", "module."}
InputTensors == {"None", "hidden_states"}

LmKey == "language_model"
HeadKey == "word_embeddings_for_head"
LmParamKeys == {"encoder.weight"}
WeParamKeys == {"weight"}
Unexpected == "unexpected.weight"

EmptyDict == [k \in {} |-> 0]
NoneT == [shape |-> <<>>, dtype |-> "None"]
Tensor(shape, dtype) == [shape |-> shape, dtype |-> dtype]
Call(fn, err) == [fn |-> fn, err |-> err]
Callees == {calls[i].fn : i \in 1..Len(calls)}

-----------------------------------------------------------------------------
(* Tensor operations used by post_language_model_processing *)

\* tensor.transpose(0, 1).contiguous(): the first two axes swapped.
transpose01(t) ==
    [t EXCEPT !.shape = <<t.shape[2], t.shape[1]>> \o SubSeq(t.shape, 3, Len(t.shape))]

\* tensor.float()
float(t) == [t EXCEPT !.dtype = "float"]

\* parallel_lm_logits: the hidden axis is projected by the logit weight
\* ([rows, hidden]) to this rank's vocabulary partition; without
\* parallel_output the partitions of all ranks are gathered.  The dtype is kept.
parallel_lm_logits(input_, logit_weights, parallel_output_) ==
    Tensor(<<input_.shape[1], input_.shape[2],
             IF parallel_output_ THEN logit_weights.shape[1]
                                 ELSE logit_weights.shape[1] * TPSize>>,
           input_.dtype)

\* tensor_parallel.vocab_parallel_cross_entropy: one loss per target position,
\* in the dtype of the logits; the targets must match the logits' leading axes.
vocab_parallel_cross_entropy(logits, target) ==
    IF target.shape = SubSeq(logits.shape, 1, 2)
    THEN [err |-> "None", loss |-> Tensor(target.shape, logits.dtype)]
    ELSE [err |-> "RuntimeError", loss |-> NoneT]

\* Mutant: the fp16 branch lacks the dtype assertion.
post_language_model_processing_NoAssert(lm_output_, labels_, logit_weights, parallel_output_, fp16_) ==
    LET out == parallel_lm_logits(lm_output_, logit_weights, parallel_output_)
        lab == transpose01(labels_)
        ce  == IF fp16_
               THEN vocab_parallel_cross_entropy(out, lab)
               ELSE vocab_parallel_cross_entropy(float(out), lab)
    IN  IF labels_ = NoneT
        THEN [output |-> out, raised |-> "None", returned |-> transpose01(out)]
        ELSE IF ce.err # "None"
        THEN [output |-> out, raised |-> ce.err, returned |-> NoneT]
        ELSE [output |-> out, raised |-> "None", returned |-> transpose01(ce.loss)]

\* Mutant: the logits are returned sequence-major, without the transpose.
post_language_model_processing_NoLogitsTranspose(lm_output_, labels_, logit_weights, parallel_output_, fp16_) ==
    LET out == parallel_lm_logits(lm_output_, logit_weights, parallel_output_)
        lab == transpose01(labels_)
        ce  == IF fp16_
               THEN vocab_parallel_cross_entropy(out, lab)
               ELSE vocab_parallel_cross_entropy(float(out), lab)
    IN  IF labels_ = NoneT
        THEN [output |-> out, raised |-> "None", returned |-> out]
        ELSE IF fp16_ /\ out.dtype # "half"
        THEN [output |-> out, raised |-> "AssertionError", returned |-> NoneT]
        ELSE IF ce.err # "None"
        THEN [output |-> out, raised |-> ce.err, returned |-> NoneT]
        ELSE [output |-> out, raised |-> "None", returned |-> transpose01(ce.loss)]

\* Mutant: the loss is returned sequence-major, without the final transpose.
post_language_model_processing_NoLossTranspose(lm_output_, labels_, logit_weights, parallel_output_, fp16_) ==
    LET out == parallel_lm_logits(lm_output_, logit_weights, parallel_output_)
        lab == transpose01(labels_)
        ce  == IF fp16_
               THEN vocab_parallel_cross_entropy(out, lab)
               ELSE vocab_parallel_cross_entropy(float(out), lab)
    IN  IF labels_ = NoneT
        THEN [output |-> out, raised |-> "None", returned |-> transpose01(out)]
        ELSE IF fp16_ /\ out.dtype # "half"
        THEN [output |-> out, raised |-> "AssertionError", returned |-> NoneT]
        ELSE IF ce.err # "None"
        THEN [output |-> out, raised |-> ce.err, returned |-> NoneT]
        ELSE [output |-> out, raised |-> "None", returned |-> ce.loss]

\* post_language_model_processing: project; without labels return the logits
\* batch-major; with labels return the batch-major per-token loss, after the
\* dtype assertion of the fp16 branch.
post_language_model_processing(lm_output_, labels_, logit_weights, parallel_output_, fp16_) ==
    LET out == parallel_lm_logits(lm_output_, logit_weights, parallel_output_)
        lab == transpose01(labels_)
        ce  == IF fp16_
               THEN vocab_parallel_cross_entropy(out, lab)
               ELSE vocab_parallel_cross_entropy(float(out), lab)
    IN  IF labels_ = NoneT
        THEN [output |-> out, raised |-> "None", returned |-> transpose01(out)]
        ELSE IF fp16_ /\ out.dtype # "half"
        THEN [output |-> out, raised |-> "AssertionError", returned |-> NoneT]
        ELSE IF ce.err # "None"
        THEN [output |-> out, raised |-> ce.err, returned |-> NoneT]
        ELSE [output |-> out, raised |-> "None", returned |-> transpose01(ce.loss)]

\* Mutant: forward post-processes on every stage.
forward_AlwaysPostProcess(lm_output_, labels_, logit_weights) ==
    LET r == post_language_model_processing(lm_output_, labels_, logit_weights,
                                            parallel_output, fp16_lm_cross_entropy)
    IN  [calls |-> <<Call("language_model", "None"),
                     Call("post_language_model_processing", r.raised)>>,
         output |-> r.output, raised |-> r.raised, returned |-> r.returned]

\* GPTModel.forward, given what the backbone returns for the inputs: the
\* backbone runs first; the last stage post-processes its output, every other
\* stage returns it as it is.
forward(lm_output_, labels_, logit_weights) ==
    IF post_process
    THEN LET r == post_language_model_processing(lm_output_, labels_, logit_weights,
                                                 parallel_output, fp16_lm_cross_entropy)
         IN  [calls |-> <<Call("language_model", "None"),
                          Call("post_language_model_processing", r.raised)>>,
              output |-> r.output, raised |-> r.raised, returned |-> r.returned]
    ELSE [calls |-> <<Call("language_model", "None")>>,
          output |-> NoneT, raised |-> "None", returned |-> lm_output_]

\* The weight forward projects with: the output layer's when embeddings are
\* untied, the (shared) word embeddings' otherwise.
LogitWeights(h, dtype) ==
    [name |-> IF untie_embeddings_and_output_weights
              THEN "language_model.output_layer.weight"
              ELSE "word_embeddings_weight",
     shape |-> <<VocabRows, h>>, dtype |-> dtype]

-----------------------------------------------------------------------------
(* Checkpoint mappings *)

\* torch.nn.Module.state_dict(prefix=...): every parameter under prefix + name.
\* (keep_vars only decides whether the values stay attached to autograd.)
torch_state_dict(p, prefix) ==
    [k2 \in {prefix \o k : k \in DOMAIN p} |->
        p[CHOOSE k \in DOMAIN p : prefix \o k = k2]]

\* torch.nn.Module.load_state_dict: every parameter whose key is in the mapping
\* is copied; in strict mode a missing or unexpected key is then an error.
torch_load_state_dict(p, sd, strict) ==
    [params |-> [k \in DOMAIN p |-> IF k \in DOMAIN sd THEN sd[k] ELSE p[k]],
     err |-> IF strict /\ DOMAIN sd # DOMAIN p THEN "RuntimeError" ELSE "None"]

\* The backbone's state_dict_for_save_checkpoint: its parameters, with the
\* prefix handed down to its sub-modules' state_dict calls.
language_model_state_dict_for_save_checkpoint(p, prefix) == torch_state_dict(p, prefix)

\* The backbone's load_state_dict: a strict-mode state loader.
language_model_load_state_dict(p, sd, strict) == torch_load_state_dict(p, sd, strict)

\* Mutant: the word embeddings are saved although embeddings are untied.
state_dict_for_save_checkpoint_NoUntieCheck(self, prefix) ==
    LET lm == LmKey :> language_model_state_dict_for_save_checkpoint(language_model[self], prefix)
    IN  IF post_process /\ ~pre_process
        THEN lm @@ (HeadKey :> torch_state_dict(word_embeddings[self], prefix))
        ELSE lm

\* Mutant: the word embeddings are saved on a stage that is also the first.
state_dict_for_save_checkpoint_NoPreProcessCheck(self, prefix) ==
    LET lm == LmKey :> language_model_state_dict_for_save_checkpoint(language_model[self], prefix)
    IN  IF post_process /\ ~untie_embeddings_and_output_weights
        THEN lm @@ (HeadKey :> torch_state_dict(word_embeddings[self], prefix))
        ELSE lm

\* GPTModel.state_dict_for_save_checkpoint
state_dict_for_save_checkpoint(self, prefix) ==
    LET lm == LmKey :> language_model_state_dict_for_save_checkpoint(language_model[self], prefix)
    IN  IF post_process /\ ~pre_process /\ ~untie_embeddings_and_output_weights
        THEN lm @@ (HeadKey :> torch_state_dict(word_embeddings[self], prefix))
        ELSE lm

NoLoad(p) == [params |-> p, err |-> "None"]

\* Mutant: the backbone is loaded before the head word embeddings.
load_state_dict_BackboneFirst(self, state_dict, strict) ==
    LET owns   == post_process /\ ~pre_process /\ ~untie_embeddings_and_output_weights
        hasLm  == LmKey \in DOMAIN state_dict
        lm     == language_model_load_state_dict(language_model[self],
                      IF hasLm THEN state_dict[LmKey] ELSE state_dict, strict)
        lmCall == <<Call("language_model.load_state_dict", lm.err)>>
        keyErr == lm.err = "None" /\ owns /\ HeadKey \notin DOMAIN state_dict
        callWe == lm.err = "None" /\ owns /\ ~keyErr
        we     == IF callWe
                  THEN torch_load_state_dict(word_embeddings[self], state_dict[HeadKey], strict)
                  ELSE NoLoad(word_embeddings[self])
    IN  [word_embeddings |-> we.params,
         language_model |-> lm.params,
         calls |-> lmCall \o (IF callWe
                              THEN <<Call("word_embeddings.load_state_dict", we.err)>>
                              ELSE <<>>),
         raised |-> IF lm.err # "None" THEN lm.err
                    ELSE IF keyErr THEN "KeyError" ELSE we.err,
         reads |-> (IF hasLm THEN {LmKey} ELSE {})
                   \cup (IF lm.err = "None" /\ owns THEN {HeadKey} ELSE {})]

\* Mutant: a failed load restores the parameters it had already written.
load_state_dict_RollsBack(self, state_dict, strict) ==
    LET owns   == post_process /\ ~pre_process /\ ~untie_embeddings_and_output_weights
        keyErr == owns /\ HeadKey \notin DOMAIN state_dict
        callWe == owns /\ ~keyErr
        we     == IF callWe
                  THEN torch_load_state_dict(word_embeddings[self], state_dict[HeadKey], strict)
                  ELSE NoLoad(word_embeddings[self])
        callLm == ~keyErr /\ we.err = "None"
        hasLm  == LmKey \in DOMAIN state_dict
        lm     == IF callLm
                  THEN language_model_load_state_dict(language_model[self],
                           IF hasLm THEN state_dict[LmKey] ELSE state_dict, strict)
                  ELSE NoLoad(language_model[self])
        err    == IF keyErr THEN "KeyError" ELSE IF we.err # "None" THEN we.err ELSE lm.err
    IN  [word_embeddings |-> IF err = "None" THEN we.params ELSE word_embeddings[self],
         language_model |-> IF err = "None" THEN lm.params ELSE language_model[self],
         calls |-> (IF callWe THEN <<Call("word_embeddings.load_state_dict", we.err)>> ELSE <<>>)
                   \o (IF callLm THEN <<Call("language_model.load_state_dict", lm.err)>> ELSE <<>>),
         raised |-> err,
         reads |-> (IF owns THEN {HeadKey} ELSE {})
                   \cup (IF callLm /\ hasLm THEN {LmKey} ELSE {})]

\* Mutant: the backbone is always handed the whole mapping.
load_state_dict_WholeMapping(self, state_dict, strict) ==
    LET owns   == post_process /\ ~pre_process /\ ~untie_embeddings_and_output_weights
        keyErr == owns /\ HeadKey \notin DOMAIN state_dict
        callWe == owns /\ ~keyErr
        we     == IF callWe
                  THEN torch_load_state_dict(word_embeddings[self], state_dict[HeadKey], strict)
                  ELSE NoLoad(word_embeddings[self])
        callLm == ~keyErr /\ we.err = "None"
        lm     == IF callLm
                  THEN language_model_load_state_dict(language_model[self], state_dict, strict)
                  ELSE NoLoad(language_model[self])
    IN  [word_embeddings |-> we.params,
         language_model |-> lm.params,
         calls |-> (IF callWe THEN <<Call("word_embeddings.load_state_dict", we.err)>> ELSE <<>>)
                   \o (IF callLm THEN <<Call("language_model.load_state_dict", lm.err)>> ELSE <<>>),
         raised |-> IF keyErr THEN "KeyError" ELSE IF we.err # "None" THEN we.err ELSE lm.err,
         reads |-> IF owns THEN {HeadKey} ELSE {}]

\* GPTModel.load_state_dict: the head word embeddings first, where this stage
\* owns them, then the backbone, from the sub-mapping under the language-model
\* key when there is one and from the whole mapping otherwise.  An exception of
\* either step ends the call there.
load_state_dict(self, state_dict, strict) ==
    LET owns   == post_process /\ ~pre_process /\ ~untie_embeddings_and_output_weights
        keyErr == owns /\ HeadKey \notin DOMAIN state_dict
        callWe == owns /\ ~keyErr
        we     == IF callWe
                  THEN torch_load_state_dict(word_embeddings[self], state_dict[HeadKey], strict)
                  ELSE NoLoad(word_embeddings[self])
        callLm == ~keyErr /\ we.err = "None"
        hasLm  == LmKey \in DOMAIN state_dict
        lm     == IF callLm
                  THEN language_model_load_state_dict(language_model[self],
                           IF hasLm THEN state_dict[LmKey] ELSE state_dict, strict)
                  ELSE NoLoad(language_model[self])
    IN  [word_embeddings |-> we.params,
         language_model |-> lm.params,
         calls |-> (IF callWe THEN <<Call("word_embeddings.load_state_dict", we.err)>> ELSE <<>>)
                   \o (IF callLm THEN <<Call("language_model.load_state_dict", lm.err)>> ELSE <<>>),
         raised |-> IF keyErr THEN "KeyError" ELSE IF we.err # "None" THEN we.err ELSE lm.err,
         reads |-> (IF owns THEN {HeadKey} ELSE {})
                   \cup (IF callLm /\ hasLm THEN {LmKey} ELSE {})]

\* The mappings a caller hands to load_state_dict besides a saved checkpoint:
\* each part present with exactly the module's keys, with an unexpected key
\* more, or with no key at all, or the part absent; without the language-model
\* key the backbone's parameters may sit in the mapping itself (a flat mapping).
SubMaps(K, v) == {EmptyDict, [k \in K |-> v], [k \in K \cup {Unexpected} |-> v]}
LmParts(v) == {EmptyDict} \cup {LmKey :> m : m \in SubMaps(LmParamKeys, v)}
HeadParts(v) == {EmptyDict} \cup {HeadKey :> m : m \in SubMaps(WeParamKeys, v)}
FlatParts(v) == {EmptyDict, [k \in LmParamKeys |-> v]}
StateDicts ==
    UNION {{l @@ h : l \in LmParts(v), h \in HeadParts(v)}
           \cup {h @@ f : h \in HeadParts(v), f \in FlatParts(v)} : v \in Val}

-----------------------------------------------------------------------------
(* The state machine: the wrappers' callers *)

Init ==
    /\ pre_process \in BOOLEAN
    /\ post_process \in BOOLEAN
    /\ parallel_output \in BOOLEAN
    /\ fp16_lm_cross_entropy \in BOOLEAN
    /\ untie_embeddings_and_output_weights \in BOOLEAN
    /\ language_model \in [Models -> [LmParamKeys -> Val]]
    /\ word_embeddings \in
          IF post_process /\ ~pre_process /\ ~untie_embeddings_and_output_weights
          THEN [Models -> [WeParamKeys -> Val]]
          ELSE {[m \in Models |-> [k \in WeParamKeys |-> 0]]}
    /\ input_tensor = "None"
    /\ state_dict_ = EmptyDict
    /\ save_prefix = ""
    /\ op = "idle"
    /\ calls = <<>>
    /\ raised = "None"
    /\ returned = NoneT
    /\ lm_output = NoneT
    /\ labels = NoneT
    /\ output = NoneT
    /\ loaded = EmptyDict
    /\ reads = {}

\* Mutant: receiving an input tensor also clears pre_process.
SetInputTensor_ClearsPreProcess(t) ==
    /\ op = "idle"
    /\ input_tensor' = t
    /\ pre_process' = FALSE
    /\ op' = "set_input_tensor"
    /\ calls' = <<Call("language_model.set_input_tensor", "None")>>
    /\ UNCHANGED <<post_process, parallel_output, fp16_lm_cross_entropy,
                   untie_embeddings_and_output_weights, params, ckpt, raised,
                   returned, lm_output, labels, output, loaded, reads>>

\* B.set_input_tensor(t): handed on to the backbone.
SetInputTensor(t) ==
    /\ op = "idle"
    /\ input_tensor' = t
    /\ op' = "set_input_tensor"
    /\ calls' = <<Call("language_model.set_input_tensor", "None")>>
    /\ UNCHANGED <<flags, params, ckpt, raised, returned, lm_output, labels,
                   output, loaded, reads>>

\* B.forward(input_ids, ..., labels): the backbone returns a tensor [s, b, h];
\* labels, when given, are [b, s].
Forward(s, b, h, dtype, with_labels) ==
    LET lmo == Tensor(<<s, b, h>>, dtype)
        lab == IF with_labels THEN Tensor(<<b, s>>, "long") ELSE NoneT
        r   == forward(lmo, lab, LogitWeights(h, dtype))
    IN  /\ op = "idle"
        /\ op' = "forward"
        /\ lm_output' = lmo
        /\ labels' = lab
        /\ calls' = r.calls
        /\ output' = r.output
        /\ raised' = r.raised
        /\ returned' = r.returned
        /\ UNCHANGED <<flags, params, input_tensor, ckpt, loaded, reads>>

\* A.state_dict_for_save_checkpoint(prefix): the caller keeps the mapping.
SaveCheckpoint(prefix) ==
    /\ op = "idle"
    /\ op' = "state_dict_for_save_checkpoint"
    /\ state_dict_' = state_dict_for_save_checkpoint("A", prefix)
    /\ save_prefix' = prefix
    /\ UNCHANGED <<flags, params, input_tensor, calls, raised, returned,
                   lm_output, labels, output, loaded, reads>>

\* B.load_state_dict(state_dict, strict), of the saved checkpoint or of another
\* mapping.
LoadStateDict(sd, strict) ==
    LET r == load_state_dict("B", sd, strict)
    IN  /\ op = "idle"
        /\ op' = "load_state_dict"
        /\ loaded' = sd
        /\ word_embeddings' = [word_embeddings EXCEPT !["B"] = r.word_embeddings]
        /\ language_model' = [language_model EXCEPT !["B"] = r.language_model]
        /\ calls' = r.calls
        /\ raised' = r.raised
        /\ reads' = r.reads
        /\ UNCHANGED <<flags, input_tensor, ckpt, returned, lm_output, labels, output>>

\* The call returns (or its exception reaches the caller): its frame is gone.
Return ==
    /\ op # "idle"
    /\ op' = "idle"
    /\ calls' = <<>>
    /\ raised' = "None"
    /\ returned' = NoneT
    /\ lm_output' = NoneT
    /\ labels' = NoneT
    /\ output' = NoneT
    /\ loaded' = EmptyDict
    /\ reads' = {}
    /\ UNCHANGED <<flags, params, input_tensor, ckpt>>

Next ==
    \/ \E t \in InputTensors : SetInputTensor(t)
    \/ \E s \in Dims, b \in Dims, h \in Dims, dtype \in Dtypes, with_labels \in BOOLEAN :
          Forward(s, b, h, dtype, with_labels)
    \/ \E prefix \in Prefixes : SaveCheckpoint(prefix)
    \/ \E sd \in StateDicts \cup (IF state_dict_ = EmptyDict THEN {} ELSE {state_dict_}),
          strict \in BOOLEAN : LoadStateDict(sd, strict)
    \/ Return

Spec == Init /\ [][Next]_vars

-----------------------------------------------------------------------------
(* Properties *)

\* The condition the claims name: a last-but-not-first stage with tied embeddings.
OwnsHead == post_process /\ ~pre_process /\ ~untie_embeddings_and_output_weights
WeLoad == "word_embeddings.load_state_dict"
LmLoad == "language_model.load_state_dict"
\* The load in progress was handed the mapping A's save returned.
LoadedCheckpoint == op = "load_state_dict" /\ state_dict_ # EmptyDict /\ loaded = state_dict_
\* What a state loader leaves in parameter k after it was handed mapping sd.
Written(old, sd, k) == IF k \in DOMAIN sd THEN sd[k] ELSE old[k]

\* C1 (as stated): whatever the flags, B's load of the mapping A's
\* state_dict_for_save_checkpoint returned raises nothing and leaves B's
\* backbone parameters, and the head word embeddings where B owns them, equal
\* to A's.
C1_RoundTripAnySave ==
    LoadedCheckpoint =>
        /\ raised = "None"
        /\ language_model["B"] = language_model["A"]
        /\ OwnsHead => word_embeddings["B"] = word_embeddings["A"]

\* C1 (amended): the same, for a mapping saved with the default, empty prefix.
C1_RoundTripDefaultPrefix ==
    (LoadedCheckpoint /\ save_prefix = "") =>
        /\ raised = "None"
        /\ language_model["B"] = language_model["A"]
        /\ OwnsHead => word_embeddings["B"] = word_embeddings["A"]

C1_Witness ==
    /\ LoadedCheckpoint
    /\ save_prefix = ""
    /\ OwnsHead
    /\ Callees = {WeLoad, LmLoad}
    /\ \E k \in LmParamKeys : language_model["A"][k] # 0
    /\ \E k \in WeParamKeys : word_embeddings["A"][k] # 0

\* C2: with untied embeddings the saved mapping never holds the
\* word-embeddings-for-head key, and load_state_dict never reads that key.
C2_UntiedExcludesHeadKey ==
    untie_embeddings_and_output_weights =>
        /\ HeadKey \notin DOMAIN state_dict_
        /\ HeadKey \notin reads

C2_Witness ==
    /\ untie_embeddings_and_output_weights
    /\ post_process /\ ~pre_process
    /\ state_dict_ # EmptyDict
    /\ op = "load_state_dict"
    /\ HeadKey \in DOMAIN loaded
    /\ raised = "None"

\* C3 (as stated): every post-processing call with fp16_lm_cross_entropy set
\* and projected logits that are not half precision ends in an assertion
\* failure and returns no tensor.
C3_AssertOnEveryCall ==
    (op = "forward" /\ post_process /\ fp16_lm_cross_entropy /\ output.dtype # "half") =>
        /\ raised = "AssertionError"
        /\ returned = NoneT

\* C3 (amended): such a call fails the assertion when labels are given; without
\* labels it returns the batch-major logits and checks no dtype.
C3_AssertWithLabels ==
    (op = "forward" /\ post_process /\ fp16_lm_cross_entropy /\ output.dtype # "half") =>
        IF labels # NoneT
        THEN raised = "AssertionError" /\ returned = NoneT
        ELSE raised = "None" /\ returned = transpose01(output)

C3_Witness ==
    /\ op = "forward" /\ post_process /\ fp16_lm_cross_entropy
    /\ output.dtype = "float"
    /\ labels # NoneT
    /\ raised = "AssertionError"

C5_LossShapeIsLabelsShape ==
    (op = "forward" /\ post_process /\ labels # NoneT /\ raised = "None") =>
        /\ returned # NoneT
        /\ returned.shape = labels.shape
        /\ returned.shape = <<lm_output.shape[2], lm_output.shape[1]>>

C5_Witness ==
    /\ op = "forward" /\ post_process /\ labels # NoneT /\ raised = "None"
    /\ fp16_lm_cross_entropy /\ output.dtype = "half"
    /\ labels.shape[1] # labels.shape[2]
    /\ returned.shape = labels.shape

\* C6: forward calls the backbone first, post-processes its output exactly
\* when post_process is set, and otherwise returns the backbone output
\* unchanged, whatever the labels.
C6_ForwardRouting ==
    op = "forward" =>
        /\ calls[1].fn = "language_model"
        /\ post_process <=> "post_language_model_processing" \in Callees
        /\ post_process => (Len(calls) = 2 /\ calls[2].fn = "post_language_model_processing")
        /\ ~post_process =>
              (Len(calls) = 1 /\ returned = lm_output /\ output = NoneT /\ raised = "None")

C6_Witness ==
    /\ op = "forward" /\ ~post_process
    /\ labels # NoneT
    /\ returned = lm_output
    /\ lm_output.shape[1] # lm_output.shape[2]

\* C7: no call of set_input_tensor, forward, state_dict_for_save_checkpoint or
\* load_state_dict changes a configuration flag.
C7_FlagsNeverChange == [][flags' = flags]_vars

C7_Witness ==
    /\ op = "load_state_dict"
    /\ input_tensor # "None"
    /\ state_dict_ # EmptyDict
    /\ raised # "None"

\* C8: load_state_dict recovers from nothing: it raises the error of the step
\* that failed, as that step raised it, calls no loader twice and none after
\* the failure, and leaves in place what the loaders it called have written.
C8_NoLocalRecovery ==
    [][op' = "load_state_dict" =>
        LET sd == loaded'
            n  == Len(calls')
            fns == {calls'[i].fn : i \in 1..n}
        IN  /\ raised' = IF OwnsHead /\ HeadKey \notin DOMAIN sd THEN "KeyError"
                         ELSE IF n = 0 THEN "None" ELSE calls'[n].err
            /\ \A i \in 1..n : i < n => calls'[i].err = "None"
            /\ Cardinality(fns) = n
            /\ WeLoad \in fns =>
                  \A k \in WeParamKeys :
                      word_embeddings'["B"][k] = Written(word_embeddings["B"], sd[HeadKey], k)
            /\ LmLoad \in fns =>
                  \A k \in LmParamKeys :
                      language_model'["B"][k] =
                          Written(language_model["B"],
                                  IF LmKey \in DOMAIN sd THEN sd[LmKey] ELSE sd, k)
    ]_vars

C8_Witness ==
    /\ op = "load_state_dict" /\ OwnsHead
    /\ Len(calls) = 2
    /\ calls[1].err = "None"
    /\ calls[2].err = "RuntimeError"
    /\ raised = "RuntimeError"
    /\ \A k \in WeParamKeys : word_embeddings["B"][k] = loaded[HeadKey][k]
    /\ word_embeddings["B"] # word_embeddings["A"]

\* C9: the saved mapping always holds the language-model key, and holds the
\* word-embeddings-for-head key exactly on a last-but-not-first stage with tied
\* embeddings; load_state_dict reads and loads the head word embeddings under
\* exactly that condition.
C9_SaveLoadKeySets ==
    /\ state_dict_ # EmptyDict =>
          /\ LmKey \in DOMAIN state_dict_
          /\ HeadKey \in DOMAIN state_dict_ <=> OwnsHead
    /\ op = "load_state_dict" =>
          /\ HeadKey \in reads <=> OwnsHead
          /\ WeLoad \in Callees <=> (OwnsHead /\ HeadKey \in DOMAIN loaded)

C9_Witness ==
    /\ LoadedCheckpoint
    /\ OwnsHead
    /\ HeadKey \in DOMAIN state_dict_
    /\ HeadKey \in reads
    /\ WeLoad \in Callees

\* C10: load_state_dict loads the head word embeddings, where owned, before
\* the backbone; it hands the backbone the sub-mapping under the language-model
\* key when there is one and the whole mapping otherwise; a missing
\* word-embeddings-for-head key fails the load with the backbone untouched.
C10_LoadOrder ==
    [][op' = "load_state_dict" =>
        LET sd == loaded'
            n  == Len(calls')
            fns == {calls'[i].fn : i \in 1..n}
            arg == IF LmKey \in DOMAIN sd THEN sd[LmKey] ELSE sd
        IN  /\ (OwnsHead /\ HeadKey \notin DOMAIN sd) =>
                  /\ raised' = "KeyError"
                  /\ n = 0
                  /\ language_model' = language_model
            /\ (OwnsHead /\ HeadKey \in DOMAIN sd) => calls'[1].fn = WeLoad
            /\ LmLoad \in fns =>
                  /\ calls'[n].fn = LmLoad
                  /\ \A k \in LmParamKeys :
                        language_model'["B"][k] = Written(language_model["B"], arg, k)
            /\ LmLoad \notin fns => language_model' = language_model
    ]_vars

C10_Witness ==
    /\ op = "load_state_dict" /\ OwnsHead
    /\ HeadKey \notin DOMAIN loaded
    /\ LmKey \in DOMAIN loaded
    /\ \E k \in LmParamKeys :
          k \in DOMAIN loaded[LmKey] /\ loaded[LmKey][k] # language_model["B"][k]
    /\ raised = "KeyError"

====
